---- MODULE Spec2Model ----
(***************************************************************************)
(* Model of src/main/sys_socket.c: one SysSocket handle (descriptor and    *)
(* read buffer), the caller's error variable, and the operations connect,  *)
(* disconnect, write, read_text and read_binary.  The operating system is  *)
(* the environment: it allocates descriptors, counts closes, and decides   *)
(* the outcome of every socket(), fcntl(), connect(), select(),            *)
(* getsockopt(), recv() and send().  The loops of write, read_text and     *)
(* read_binary advance one iteration per step, because each iteration      *)
(* waits on the environment.  Memory allocation is assumed to succeed.     *)
(***************************************************************************)
EXTENDS Integers, Sequences, FiniteSets, TLC

\* ---- bounds of the model ----
BufSize == 3
MaxStream == 3
MaxFd == 2
MaxClose == 2
MaxWrite == 2
MaxExpected == 2

\* ---- program constants ----
INVALID_SOCKET == -1
ETIMEDOUT == 110
PEER_CLOSED == -1
NUL == 0

\* errno values a failing system call may leave (SOCK_ERROR()).
SockErrors == {104}
\* the bytes a peer may send: NUL (which ends a C string) and LF
Byte == {0, 10}
\* the terminators a caller passes to read_text: "\n", "\n\n" and ""
Terminators == {<<10>>, <<10, 10>>, <<>>}

Fds == 1..MaxFd

VARIABLES
    sockfd,     \* sock->sockfd
    rb,         \* sock->readBuffer: data[0 .. position), position = Len(rb)
    err,        \* the caller's error variable (*errp)
    pc,         \* "idle", or the operation whose loop is running
    fr,         \* the running call's arguments and locals
    ret,        \* what the last call returned (none while a call is running)
    nfd,        \* descriptors the system has allocated so far
    closes,     \* closesocket() calls issued, per descriptor value
    received,   \* every byte recv() has delivered to the handle, in order
    consumed,   \* number of bytes calls have copied out of the read buffer
    returned,   \* concatenation of the buffers returned, while allOk
    allOk       \* every read call so far returned with error 0

vars == <<sockfd, rb, err, pc, fr, ret, nfd, closes, received, consumed, returned, allOk>>
ghost == <<received, consumed, returned, allOk>>

Min(S) == CHOOSE x \in S : \A y \in S : x <= y
min(a, b) == IF a < b THEN a ELSE b

\* The descriptor the handle holds is one the system has open.
IsOpen(fd) == fd \in Fds /\ fd <= nfd /\ closes[fd] = 0

\* A call's arguments and locals.  input, startEmpty and didRecv record, for the
\* properties, the bytes the call had to work with (the buffer at entry followed
\* by what it received), whether the buffer was empty at entry, and whether the
\* call asked the socket for data; sent and failed record, for a write, the
\* indices of data[] the sends have accepted, in order, and whether a send has
\* returned zero or less.
NoFrame == [op |-> "none", term |-> <<>>, expected |-> 0, data |-> <<>>,
            len |-> 0, ofs |-> 0, input |-> <<>>, startEmpty |-> FALSE,
            didRecv |-> FALSE, sent |-> <<>>, failed |-> FALSE]
\* A call's results (ok: true, or a non-NULL buffer), with the frame's record
\* of the call, the handle's descriptor at entry (fd0), the descriptor
\* connect allocated (alloc) and, for a read call a failed receive ended, what
\* the system reported (cause); for a connect, the system's answers that decided
\* it (path) and the pending socket error it fetched (soerr).
NoRet == [op |-> "none", ok |-> FALSE, data |-> <<>>, actualSize |-> 0,
          fd0 |-> INVALID_SOCKET, alloc |-> INVALID_SOCKET,
          term |-> <<>>, expected |-> 0, input |-> <<>>, startEmpty |-> FALSE,
          didRecv |-> FALSE, cause |-> "none",
          len |-> 0, sent |-> <<>>, failed |-> FALSE,
          path |-> "none", soerr |-> 0]

\* sys_socket_init
Init ==
    /\ sockfd = INVALID_SOCKET
    /\ rb = <<>>
    /\ err = 0
    /\ pc = "idle"
    /\ fr = NoFrame
    /\ ret = NoRet
    /\ nfd = 0
    /\ closes = [d \in Fds \cup {INVALID_SOCKET} |-> 0]
    /\ received = <<>>
    /\ consumed = 0
    /\ returned = <<>>
    /\ allOk = TRUE

\* ---- the environment's answers ----

\* One connect attempt: the results of socket(), fcntl(), connect(), select()
\* and getsockopt(SO_ERROR), and the errno a failing call leaves.
\* A field a path never reads holds its first value.
ConnectOutcomes ==
    LET all == [sock : {"ok", "fail"}, nb : {"ok", "fail"},
                conn : {"ok", "inprogress", "fail"},
                sel : {"ready", "timeout", "fail"}, soerr : {0} \cup SockErrors,
                e : SockErrors]
    IN {o \in all :
          /\ (o.sock = "fail" => o.nb = "ok")
          /\ (o.sock = "fail" \/ o.nb = "fail" => o.conn = "ok")
          /\ (o.conn # "inprogress" => o.sel = "ready")
          /\ (o.conn # "inprogress" \/ o.sel # "ready" => o.soerr = 0)}

\* The byte strings one recv() of at most nbyte bytes may deliver.
Chunks(nbyte) ==
    UNION {[1..k -> Byte] : k \in 1..min(nbyte, MaxStream - Len(received))}

NoBytes == <<>>

\* One wait-and-receive on descriptor fd: select(), getsockopt(SO_ERROR) and
\* recv() (rc > 0 with bytes, rc = 0, rc < 0).  A descriptor that is not open
\* makes select() fail.
RecvOutcomes(fd, nbyte) ==
    IF ~IsOpen(fd)
    THEN {[sel |-> "fail", soerr |-> 0, rc |-> -1, bytes |-> NoBytes, e |-> e] : e \in SockErrors}
    ELSE {[sel |-> "timeout", soerr |-> 0, rc |-> -1, bytes |-> NoBytes, e |-> Min(SockErrors)]}
         \cup {[sel |-> "fail", soerr |-> 0, rc |-> -1, bytes |-> NoBytes, e |-> e] : e \in SockErrors}
         \cup {[sel |-> "ready", soerr |-> e, rc |-> -1, bytes |-> NoBytes, e |-> e] : e \in SockErrors}
         \cup {[sel |-> "ready", soerr |-> 0, rc |-> -1, bytes |-> NoBytes, e |-> e] : e \in SockErrors}
         \cup {[sel |-> "ready", soerr |-> 0, rc |-> 0, bytes |-> NoBytes, e |-> Min(SockErrors)]}
         \cup {[sel |-> "ready", soerr |-> 0, rc |-> Len(b), bytes |-> b, e |-> Min(SockErrors)] :
                 b \in Chunks(nbyte)}

\* What the system reported in a wait-and-receive that delivered no bytes: the
\* wait elapsed ("timeout"), recv() returned 0 ("closed"), or select(),
\* SO_ERROR or recv() reported an error ("error").
RecvCause(o) ==
    CASE o.sel = "none" -> "none"
      [] o.sel = "timeout" -> "timeout"
      [] o.sel = "ready" /\ o.soerr = 0 /\ o.rc > 0 -> "none"
      [] o.sel = "ready" /\ o.soerr = 0 /\ o.rc = 0 -> "closed"
      [] OTHER -> "error"

\* ---- static helpers ----

\* socket_get_error: *errp = the pending SO_ERROR value.
socket_get_error(soerr) == soerr

\* socket_select: the value left in *errp (the call returns *errp == 0).
socket_select(sel, soerr, e) ==
    CASE sel = "ready" -> socket_get_error(soerr)
      [] sel = "timeout" -> ETIMEDOUT
      [] OTHER -> e

\* socket_set_nonblock: the value left in *errp.
socket_set_nonblock(nb, e) == IF nb = "ok" THEN 0 ELSE e

\* socket_read returning recv's 0 as a read of no bytes, with no error.
socket_read_zero_ok(o) ==
    LET selErr == socket_select(o.sel, o.soerr, o.e) IN
    IF selErr = 0
    THEN IF o.rc >= 0
         THEN [n |-> o.rc, err |-> 0, bytes |-> o.bytes]
         ELSE [n |-> 0, err |-> o.e, bytes |-> NoBytes]
    ELSE [n |-> 0, err |-> selErr, bytes |-> NoBytes]

\* socket_read: [n |-> bytes read, err |-> *errp, bytes |-> what recv stored].
\* *errp is written by socket_select, and again when recv returns <= 0.
socket_read(o) ==
    LET selErr == socket_select(o.sel, o.soerr, o.e) IN
    IF selErr = 0
    THEN IF o.rc > 0
         THEN [n |-> o.rc, err |-> 0, bytes |-> o.bytes]
         ELSE [n |-> 0, err |-> IF o.rc = 0 THEN PEER_CLOSED ELSE o.e, bytes |-> NoBytes]
    ELSE [n |-> 0, err |-> selErr, bytes |-> NoBytes]

\* ---- connect ----

\* The system's answers that decide one connect attempt: socket() failed
\* ("create"), fcntl() failed ("nonblock"), connect() returned 0 ("connected"),
\* connect() failed with an errno other than EINPROGRESS and EAGAIN ("refused"),
\* or it reported one of the two and select() then returned 1 ("ready"),
\* 0 ("timeout") or something else ("waitfail").
ConnectPath(o, created) ==
    CASE ~created -> "create"
      [] o.nb = "fail" -> "nonblock"
      [] o.conn = "ok" -> "connected"
      [] o.conn = "fail" -> "refused"
      [] o.sel = "ready" -> "ready"
      [] o.sel = "timeout" -> "timeout"
      [] OTHER -> "waitfail"

\* connect_error waiting for writability after any failure of connect(), the
\* errno test of line 67 left out.
connect_error_waitany(o) ==
    LET nbErr == socket_set_nonblock(o.nb, o.e) IN
    IF nbErr = 0 /\ o.conn # "ok"
    THEN socket_select(o.sel, o.soerr, o.e)
    ELSE nbErr

\* Lines 65-72: *errp once a descriptor has been allocated.
connect_error(o) ==
    LET nbErr == socket_set_nonblock(o.nb, o.e) IN
    IF nbErr = 0 /\ o.conn # "ok"
    THEN IF o.conn = "inprogress" THEN socket_select(o.sel, o.soerr, o.e) ELSE o.e
    ELSE nbErr

\* connect_cleanup with line 75 left out: the descriptor is closed, the handle
\* keeps it.
connect_cleanup_noreset(fd, e) ==
    IF e # 0 /\ fd # INVALID_SOCKET
    THEN [sockfd |-> fd, close |-> {fd}]
    ELSE [sockfd |-> fd, close |-> {}]

\* Lines 73-76: the failure path closes the descriptor and resets the handle.
connect_cleanup(fd, e) ==
    IF e # 0 /\ fd # INVALID_SOCKET
    THEN [sockfd |-> INVALID_SOCKET, close |-> {fd}]
    ELSE [sockfd |-> fd, close |-> {}]

Closed(S) == [d \in DOMAIN closes |-> IF d \in S THEN closes[d] + 1 ELSE closes[d]]

socket_connect ==
    /\ pc = "idle"
    /\ \E o \in ConnectOutcomes :
         LET created == o.sock = "ok" /\ nfd < MaxFd
             fd == IF created THEN nfd + 1 ELSE INVALID_SOCKET
             e == IF created THEN connect_error(o) ELSE o.e
             c == connect_cleanup(fd, e)
         IN /\ nfd' = IF created THEN nfd + 1 ELSE nfd
            /\ sockfd' = c.sockfd
            /\ closes' = Closed(c.close)
            /\ err' = e
            /\ ret' = [NoRet EXCEPT !.op = "connect", !.ok = (e = 0),
                                    !.fd0 = sockfd, !.alloc = fd,
                                    !.path = ConnectPath(o, created),
                                    !.soerr = o.soerr]
    /\ UNCHANGED <<rb, pc, fr, ghost>>

\* ---- disconnect ----

\* disconnect_closes without the test of line 84.
disconnect_closes_unguarded(fd) == {fd}

\* Lines 84-86: the descriptors socket_disconnect closes.
disconnect_closes(fd) == IF fd # INVALID_SOCKET THEN {fd} ELSE {}

\* closesocket() calls issued so far.
TotalCloses ==
    Cardinality({c \in (DOMAIN closes) \X (1..(MaxClose + MaxFd)) : c[2] <= closes[c[1]]})

socket_disconnect ==
    /\ pc = "idle"
    /\ disconnect_closes(sockfd) # {} => TotalCloses < MaxClose
    /\ closes' = Closed(disconnect_closes(sockfd))
    /\ ret' = [NoRet EXCEPT !.op = "disconnect", !.fd0 = sockfd]
    /\ UNCHANGED <<sockfd, rb, err, pc, fr, nfd, ghost>>

\* ---- read_text ----

\* The C string at the start of the buffer: rb->data[rb->position] = '\0' ends
\* it at position, and a NUL byte among the received bytes ends it earlier.
CString(buf) ==
    LET z == {i \in 1..Len(buf) : buf[i] = NUL} IN
    IF z = {} THEN buf ELSE SubSeq(buf, 1, Min(z) - 1)

\* strstr(rb->data, terminator): found is eos # NULL, ofs is eos - rb->data.
strstr(buf, terminator) ==
    LET h == CString(buf)
        at == {i \in 0..(Len(h) - Len(terminator)) :
                 SubSeq(h, i + 1, i + Len(terminator)) = terminator}
    IN IF at = {} THEN [found |-> FALSE, ofs |-> 0] ELSE [found |-> TRUE, ofs |-> Min(at)]

\* Line 123: the number of bytes this iteration moves to the result.
text_take(buf, terminator) ==
    LET eos == strstr(buf, terminator) IN
    IF ~eos.found THEN Len(buf) ELSE eos.ofs + Len(terminator)

\* shift_left without the memmove of line 131: position drops, the bytes stay.
shift_left_nomove(buf, n) == SubSeq(buf, 1, Len(buf) - n)

\* Lines 130-132: rb->position -= n, and the bytes left move to the front.
shift_left(buf, n) == SubSeq(buf, n + 1, Len(buf))

\* result_kept without the free of lines 135-138 and 170-173.
result_kept_partial(e, data) == data # <<>>

\* Lines 135-138 and 170-173: a non-zero *errp frees the result.
result_kept(e, data) == e = 0 /\ data # <<>>

NoRecv == [sel |-> "none", soerr |-> 0, rc |-> 0, bytes |-> NoBytes, e |-> Min(SockErrors)]

\* A read call with frame f returns: lines 135-142 and 170-178.
ReturnRead(f, e, data, input, didRecv, cause) ==
    LET ok == result_kept(e, data) IN
    /\ pc' = "idle"
    /\ fr' = NoFrame
    /\ ret' = [NoRet EXCEPT !.op = f.op, !.ok = ok, !.data = IF ok THEN data ELSE <<>>,
                            !.actualSize = IF ok /\ f.op = "read_binary" THEN Len(data) ELSE 0,
                            !.term = f.term, !.expected = f.expected,
                            !.input = input, !.startEmpty = f.startEmpty,
                            !.didRecv = didRecv, !.cause = cause]
    /\ returned' = IF allOk /\ e = 0 THEN returned \o (IF ok THEN data ELSE <<>>) ELSE <<>>
    /\ allOk' = (allOk /\ e = 0)

\* One pass of the do-while loop (lines 113-134) of the call with frame f, and
\* lines 135-142 when the loop ends.
TextPass(f) ==
    /\ \E o \in (IF rb = <<>> THEN RecvOutcomes(sockfd, BufSize) ELSE {NoRecv}) :
         LET refill == rb = <<>>
             r == socket_read(o)
             e == IF refill THEN r.err ELSE err
             buf == IF refill THEN r.bytes ELSE rb
             input == IF refill THEN f.input \o r.bytes ELSE f.input
             didRecv == f.didRecv \/ refill
         IN /\ err' = e
            /\ received' = IF refill THEN received \o r.bytes ELSE received
            /\ IF refill /\ e # 0
               THEN /\ rb' = <<>>
                    /\ consumed' = consumed
                    /\ ReturnRead(f, e, f.data, input, didRecv, RecvCause(o))
               ELSE LET eos == strstr(buf, f.term)
                        n == text_take(buf, f.term)
                        data == f.data \o SubSeq(buf, 1, n)
                    IN /\ rb' = shift_left(buf, n)
                       /\ consumed' = consumed + n
                       /\ IF eos.found
                          THEN ReturnRead(f, e, data, input, didRecv, "none")
                          ELSE /\ pc' = "read_text"
                               /\ fr' = [f EXCEPT !.data = data, !.input = input,
                                                  !.didRecv = didRecv]
                               /\ ret' = NoRet
                               /\ UNCHANGED <<returned, allOk>>
    /\ UNCHANGED <<sockfd, nfd, closes>>

\* socket_read_text: entry and the first pass of the loop.
socket_read_text ==
    /\ pc = "idle"
    /\ \E t \in Terminators :
         TextPass([NoFrame EXCEPT !.op = "read_text", !.term = t, !.input = rb,
                                  !.startEmpty = (rb = <<>>)])

\* socket_read_text: a later pass of the loop.
read_text_loop ==
    /\ pc = "read_text"
    /\ TextPass(fr)

\* ---- read_binary ----

\* nbytesToRead asking for a full buffer whatever the call still needs.
nbytesToRead_capacity(expectedSize, dataSize) == BufSize

\* Line 157: the size asked of one recv.
nbytesToRead(expectedSize, dataSize) == min(BufSize, expectedSize - dataSize)

\* binary_take copying no more than the call still needs, while line 168 still
\* empties the buffer.
binary_take_needed(buf, need) == min(Len(buf), need)

\* Lines 165-167: every buffered byte goes to the result.
binary_take(buf, need) == Len(buf)

\* One pass of the while loop (lines 155-169) of the call with frame f, entered
\* with *errp = e0, and lines 170-178 when the loop ends.
BinaryPass(f, e0) ==
    /\ \E o \in (IF rb = <<>>
                 THEN RecvOutcomes(sockfd, nbytesToRead(f.expected, Len(f.data)))
                 ELSE {NoRecv}) :
         LET refill == rb = <<>>
             r == socket_read(o)
             e == IF refill THEN r.err ELSE e0
             buf == IF refill THEN r.bytes ELSE rb
             input == IF refill THEN f.input \o r.bytes ELSE f.input
             didRecv == f.didRecv \/ refill
         IN /\ err' = e
            /\ received' = IF refill THEN received \o r.bytes ELSE received
            /\ rb' = <<>>
            /\ IF refill /\ e # 0
               THEN /\ consumed' = consumed
                    /\ ReturnRead(f, e, f.data, input, didRecv, RecvCause(o))
               ELSE LET n == binary_take(buf, f.expected - Len(f.data))
                        data == f.data \o SubSeq(buf, 1, n)
                    IN /\ consumed' = consumed + Len(buf)
                       /\ IF Len(data) < f.expected
                          THEN /\ pc' = "read_binary"
                               /\ fr' = [f EXCEPT !.data = data, !.input = input,
                                                  !.didRecv = didRecv]
                               /\ ret' = NoRet
                               /\ UNCHANGED <<returned, allOk>>
                          ELSE ReturnRead(f, e, data, input, didRecv, "none")
    /\ UNCHANGED <<sockfd, nfd, closes>>

\* socket_read_binary: entry (lines 151-154) and the first pass of the loop; with
\* expectedSize = 0 the loop is not entered and the call returns NULL.
socket_read_binary ==
    /\ pc = "idle"
    /\ \E L \in 0..MaxExpected :
         LET f == [NoFrame EXCEPT !.op = "read_binary", !.expected = L,
                                  !.input = rb, !.startEmpty = (rb = <<>>)]
         IN IF L = 0
            THEN /\ err' = 0
                 /\ ReturnRead(f, 0, <<>>, rb, FALSE, "none")
                 /\ UNCHANGED <<sockfd, rb, nfd, closes, received, consumed>>
            ELSE BinaryPass(f, 0)

\* socket_read_binary: a later pass of the loop.
read_binary_loop ==
    /\ pc = "read_binary"
    /\ BinaryPass(fr, err)

\* ---- write ----

\* What one send() of rem bytes on descriptor fd may return.
SendResults(fd, rem) == IF IsOpen(fd) THEN {-1} \cup (0..rem) ELSE {-1}

\* What SOCK_ERROR() may yield after send() returned n <= 0: a failing send sets
\* errno; one that returned 0 did not, and errno holds what an earlier call left
\* there, or 0.
SendErrno(n) == IF n < 0 THEN SockErrors ELSE {0} \cup SockErrors

\* Line 100: ofs += n.
advance(ofs, n) == ofs + n

\* Lines 98 and 102: the call with frame f returns (a call that returns false
\* is recorded without its length and accepted bytes).
ReturnWrite(f, ok, sent, failed) ==
    /\ pc' = "idle"
    /\ fr' = NoFrame
    /\ ret' = [NoRet EXCEPT !.op = "write", !.ok = ok, !.len = f.len,
                            !.sent = sent, !.failed = failed]

\* One pass of the for loop (lines 94-101) of the call with frame f, entered with
\* *errp = e0: send is given &p[ofs] and len - ofs, and accepts the first n of
\* those bytes.
WritePass(f, e0) ==
    /\ \E n \in SendResults(sockfd, f.len - f.ofs) :
         IF n <= 0
         THEN /\ err' \in SendErrno(n)
              /\ ReturnWrite([f EXCEPT !.len = 0], FALSE, <<>>, TRUE)
         ELSE LET sent == f.sent \o [i \in 1..n |-> f.ofs + i]
                  ofs == advance(f.ofs, n)
              IN /\ err' = e0
                 /\ IF ofs < f.len
                    THEN /\ pc' = "write"
                         /\ fr' = [f EXCEPT !.ofs = ofs, !.sent = sent]
                         /\ ret' = NoRet
                    ELSE ReturnWrite(f, TRUE, sent, f.failed)
    /\ UNCHANGED <<sockfd, rb, nfd, closes, ghost>>

\* socket_write: entry (line 92) and the first send; with len = 0 the loop is not
\* entered and the call returns true.
socket_write ==
    /\ pc = "idle"
    /\ \E len \in 0..MaxWrite :
         LET f == [NoFrame EXCEPT !.op = "write", !.len = len] IN
         IF len = 0
         THEN /\ err' = 0
              /\ ReturnWrite(f, TRUE, <<>>, FALSE)
              /\ UNCHANGED <<sockfd, rb, nfd, closes, ghost>>
         ELSE WritePass(f, 0)

\* socket_write: a later send.
socket_write_loop ==
    /\ pc = "write"
    /\ WritePass(fr, err)

Next ==
    \/ socket_connect
    \/ socket_disconnect
    \/ socket_write
    \/ socket_write_loop
    \/ socket_read_text
    \/ read_text_loop
    \/ socket_read_binary
    \/ read_binary_loop

Spec == Init /\ [][Next]_vars

\* The calls are synchronous and every wait ends with its timeout at the
\* latest: a loop that is running makes its next pass.
FairSpec ==
    /\ Spec
    /\ WF_vars(read_text_loop \/ read_binary_loop \/ socket_write_loop)

\* ---- properties ----

\* The offsets at which t occurs in s, byte for byte.
Occurrences(s, t) == {i \in 0..(Len(s) - Len(t)) : SubSeq(s, i + 1, i + Len(t)) = t}
NoNul(s) == \A i \in 1..Len(s) : s[i] # NUL
\* s up to and including the first t.
FirstRecord(s, t) == SubSeq(s, 1, Min(Occurrences(s, t)) + Len(t))
\* s after the first t.
AfterFirstRecord(s, t) == SubSeq(s, Min(Occurrences(s, t)) + Len(t) + 1, Len(s))
ReadOps == {"read_text", "read_binary"}

\* C1: read_text(T), T non-empty, started on an empty buffer: once the bytes
\* received (here: NUL-free ones) contain T exactly once, however they were split
\* across receives, the call has returned exactly the bytes up to and including T.
C1_ReadTextAnyChunking ==
    /\ (pc = "read_text" /\ fr.startEmpty /\ fr.term # <<>> /\ NoNul(fr.input))
          => Cardinality(Occurrences(fr.input, fr.term)) # 1
    /\ (ret.op = "read_text" /\ ret.startEmpty /\ ret.term # <<>> /\ NoNul(ret.input)
          /\ Cardinality(Occurrences(ret.input, ret.term)) = 1)
          => (ret.ok /\ ret.data = FirstRecord(ret.input, ret.term))

\* C2: every read_binary(L) either returns exactly L bytes with actualSize = L,
\* or returns no buffer with actualSize = 0.
C2_ReadBinaryExact ==
    ret.op = "read_binary" =>
        \/ ret.ok /\ Len(ret.data) = ret.expected /\ ret.actualSize = ret.expected
        \/ ~ret.ok /\ ret.data = <<>> /\ ret.actualSize = 0

\* C3: connect, write, read_text (non-empty terminator) and read_binary return
\* either their result with error 0 or no result with a non-zero error, whatever
\* the error variable held before; a read_text served from the buffer alone
\* returns the record with error 0.
C3_ErrorValueTotal ==
    /\ (ret.op \in {"connect", "write", "read_binary"}
          \/ (ret.op = "read_text" /\ ret.term # <<>>))
          => \/ (ret.ok \/ (ret.op = "read_binary" /\ ret.expected = 0)) /\ err = 0
             \/ ~ret.ok /\ err # 0
    /\ (ret.op = "read_text" /\ ret.term # <<>> /\ ~ret.didRecv) => (ret.ok /\ err = 0)

\* C4: every descriptor connect allocated is closed exactly once: never twice,
\* and once the handle no longer refers to it, it has been closed.
C4_DescriptorClosedExactlyOnce ==
    \A d \in 1..nfd : closes[d] <= 1 /\ (sockfd # d => closes[d] = 1)

\* C5: when connect returns, either it returned true, the error is 0 and the
\* handle holds the open descriptor it allocated, or it returned false, the
\* error is non-zero, the handle is invalid and the descriptor it allocated, if
\* any, has been closed.
C5_ConnectAllOrNothing ==
    ret.op = "connect" =>
        \/ ret.ok /\ err = 0 /\ sockfd = ret.alloc /\ IsOpen(sockfd)
        \/ /\ ~ret.ok /\ err # 0 /\ sockfd = INVALID_SOCKET
           /\ (ret.alloc # INVALID_SOCKET => closes[ret.alloc] = 1)

C5_Witness == ret.op = "connect" /\ ~ret.ok /\ ret.alloc # INVALID_SOCKET

\* C6: after disconnect returns on a connected handle, the handle's descriptor
\* is the invalid sentinel.
C6_DisconnectResetsHandle ==
    (ret.op = "disconnect" /\ ret.fd0 \in Fds /\ closes[ret.fd0] = 1)
        => sockfd = INVALID_SOCKET

\* C7: disconnect on a handle whose descriptor is the invalid sentinel issues no
\* close and leaves the descriptor and the read buffer as they were.
C7_DisconnectInvalidNoOp ==
    [][(socket_disconnect /\ sockfd = INVALID_SOCKET)
          => (sockfd' = sockfd /\ rb' = rb /\ closes' = closes)]_vars

C7_Witness ==
    ret.op = "disconnect" /\ ret.fd0 = INVALID_SOCKET /\ nfd > 0 /\ rb # <<>>

\* C8: after every read_text or read_binary call, the buffer position is within
\* the data capacity and the buffered bytes are exactly the received bytes no
\* call has consumed, in order, from offset 0.
C8_BufferInvariant ==
    (pc = "idle" /\ ret.op \in ReadOps) =>
        /\ Len(rb) <= BufSize
        /\ consumed <= Len(received)
        /\ rb = SubSeq(received, consumed + 1, Len(received))

C8_Witness ==
    pc = "idle" /\ ret.op = "read_text" /\ ret.ok /\ ~ret.startEmpty /\ rb # <<>>

\* C9: while every read call has succeeded, the returned buffers, concatenated,
\* followed by the buffered bytes are exactly the bytes received so far.
C9_NoLossNoDuplication ==
    (pc = "idle" /\ allOk) => returned \o rb = received

C9_Witness ==
    pc = "idle" /\ allOk /\ ret.op = "read_binary" /\ ret.ok
        /\ Len(returned) > Len(ret.data) /\ ret.didRecv

\* C10: once a read_text call's bytes (NUL-free) hold its terminator followed by
\* more bytes, the call has returned the bytes up to and including the first
\* terminator and the rest is in the buffer; repeated over a stream of k records
\* this gives the k records in order.
C10_ReadTextRecordFraming ==
    /\ (pc = "read_text" /\ fr.term # <<>> /\ NoNul(fr.input)
          /\ Occurrences(fr.input, fr.term) # {})
          => AfterFirstRecord(fr.input, fr.term) = <<>>
    /\ (ret.op = "read_text" /\ ret.term # <<>> /\ NoNul(ret.input)
          /\ Occurrences(ret.input, ret.term) # {}
          /\ AfterFirstRecord(ret.input, ret.term) # <<>>)
          => /\ ret.ok
             /\ ret.data = FirstRecord(ret.input, ret.term)
             /\ rb = AfterFirstRecord(ret.input, ret.term)

\* C11: when a receive fails during read_text or read_binary, the call returns
\* no buffer and actualSize 0 (what it had accumulated is discarded), the error
\* is ETIMEDOUT for an elapsed wait, the peer-closed sentinel for a zero-byte
\* receive and the (non-zero) system error otherwise, and the handle's
\* descriptor is the same and has not been closed.
C11_ReceiveFailure ==
    [][(pc' = "idle" /\ ret'.op \in ReadOps /\ ret'.cause # "none")
          => /\ ~ret'.ok /\ ret'.data = <<>> /\ ret'.actualSize = 0
             /\ ret'.cause = "timeout" => err' = ETIMEDOUT
             /\ ret'.cause = "closed" => err' = PEER_CLOSED
             /\ ret'.cause = "error" => err' \in SockErrors
             /\ err' # 0
             /\ sockfd' = sockfd /\ closes' = closes /\ nfd' = nfd]_vars

C11_Witness ==
    /\ ret.op = "read_binary" /\ ret.cause = "closed" /\ ret.startEmpty
    /\ ret.input # <<>> /\ IsOpen(sockfd)

\* C12: while write loops, no send has returned zero or less and the bytes the
\* sends accepted are data[0..ofs) in order; when it returns true they are
\* data[0..len) exactly; when a send returned zero or less, write returned false
\* with a non-zero error.
C12_WriteExactOrFail ==
    /\ pc = "write" => (~fr.failed /\ fr.sent = [i \in 1..fr.ofs |-> i] /\ fr.ofs < fr.len)
    /\ (ret.op = "write" /\ ret.ok) => (~ret.failed /\ ret.sent = [i \in 1..ret.len |-> i])
    /\ (ret.op = "write" /\ ret.failed) => (~ret.ok /\ err # 0)

\* C13: a connect whose connect() reported EINPROGRESS or EAGAIN waits: when
\* the wait reports readiness the error is the pending socket error and connect
\* succeeds exactly when that is 0; when the wait elapses connect fails with
\* ETIMEDOUT; when select() itself fails connect fails with the system error.
\* Any other connect() error fails connect with the system error, no wait made.
C13_ConnectWaitMapping ==
    ret.op = "connect" =>
        /\ ret.path = "ready" => (err = ret.soerr /\ ret.ok = (ret.soerr = 0))
        /\ ret.path = "timeout" => (~ret.ok /\ err = ETIMEDOUT)
        /\ ret.path = "waitfail" => (~ret.ok /\ err \in SockErrors)
        /\ ret.path = "refused" => (~ret.ok /\ err \in SockErrors)

C13_Witness == ret.op = "connect" /\ ret.path = "timeout" /\ ret.alloc # INVALID_SOCKET

\* A step in which a read call waited for the socket: it received bytes, or a
\* failed wait-and-receive ended the call.
Waited ==
    \/ received' # received
    \/ pc' = "idle" /\ ret'.op \in ReadOps /\ ret'.cause # "none"
\* The operation, terminator and size of the call a step from idle entered.
EnteredOp == IF pc' = "idle" THEN ret'.op ELSE fr'.op
EnteredTerm == IF pc' = "idle" THEN ret'.term ELSE fr'.term
EnteredSize == IF pc' = "idle" THEN ret'.expected ELSE fr'.expected

\* C14: read_text and read_binary wait for the socket only when the read buffer
\* is empty; a read_text whose (non-empty) terminator lies in the (NUL-free)
\* buffer returns the buffered record, and a read_binary(L) with L or more bytes
\* buffered returns a buffer starting with them, neither waiting for the socket.
C14_BufferFirst ==
    [][/\ Waited => rb = <<>>
       /\ (pc = "idle" /\ EnteredOp = "read_text" /\ EnteredTerm # <<>>
             /\ NoNul(rb) /\ Occurrences(rb, EnteredTerm) # {})
             => /\ pc' = "idle" /\ ~Waited /\ ~ret'.didRecv
                /\ ret'.ok /\ ret'.data = FirstRecord(rb, EnteredTerm)
       /\ (pc = "idle" /\ EnteredOp = "read_binary" /\ EnteredSize > 0
             /\ Len(rb) >= EnteredSize)
             => /\ pc' = "idle" /\ ~Waited /\ ~ret'.didRecv
                /\ ret'.ok /\ SubSeq(ret'.data, 1, EnteredSize) = SubSeq(rb, 1, EnteredSize)
      ]_vars

\* C15: a read_binary(L) entered with an empty buffer has taken from the socket
\* exactly the bytes it has accumulated, fewer than L while it loops and at
\* most L when it returns; the buffer is empty when it returns and a returned
\* buffer holds every byte taken.
C15_ReadBinaryTakesAtMostExpected ==
    /\ (pc = "read_binary" /\ fr.startEmpty)
          => (fr.data = fr.input /\ Len(fr.input) < fr.expected /\ rb = <<>>)
    /\ (ret.op = "read_binary" /\ ret.startEmpty)
          => /\ Len(ret.input) <= ret.expected
             /\ rb = <<>>
             /\ ret.ok => ret.data = ret.input

C15_Witness ==
    ret.op = "read_binary" /\ ret.startEmpty /\ ret.ok /\ Len(ret.data) > 1

\* C16: a read_text with the empty terminator returns only when a receive has
\* failed, having consumed every byte that was available (the buffer is empty).
C16_EmptyTerminatorNeverMatches ==
    (ret.op = "read_text" /\ ret.term = <<>>) => (ret.cause # "none" /\ rb = <<>>)

\* The bytes the running call has accumulated.
Accumulated == IF pc = "idle" THEN 0 ELSE Len(fr.data)

C18_ReconnectStartsEmpty ==
    (ret.op = "connect" /\ ret.ok /\ ret.fd0 \in Fds /\ closes[ret.fd0] >= 1)
        => rb = <<>>

====
